---- MODULE Spec2Model ----
(***************************************************************************)
(* A state-machine model of voxblox_ros/src/tsdf_server.cc (TsdfServer):   *)
(* the two point-cloud callbacks with their rate gate, the pose lookup,    *)
(* the sanitizing loop and the integrator call, and the two mesh cycles    *)
(* (updateMesh on the timer, generateMesh on the service).                 *)
(*                                                                         *)
(* Time is counted in ticks; ros::Time and ros::Duration arithmetic is     *)
(* taken as exact on the modelled range.  Each callback is cut into steps  *)
(* at its calls into the collaborators (pose lookup, integrator, mesh      *)
(* extractor, publisher, exporter), so that "a call is in progress" is a   *)
(* state.  The variable spinner_threads says how the callbacks are         *)
(* delivered: 1 is ros::spin (a callback runs to completion before the     *)
(* next starts), 2 is a spinner with two threads, where callbacks of two   *)
(* different sources run at the same time.                                 *)
(***************************************************************************)
EXTENDS Integers, Sequences, FiniteSets, TLC

(* ------------------------------ bounds --------------------------------- *)

\* frames delivered in one run, over both streams
MaxFrames == 2
\* timestamps are drawn from 0..MaxTime
MaxTime == 2
\* samples of a raw point cloud given to the sanitizing loop
MaxPoints == 3
\* successful or failed loadMap requests in one run
MaxLoads == 1

Times == 0 .. MaxTime
\* values of the parameter min_time_between_msgs_sec (a double: any sign)
MinTimes == {-1, 0, 2}
Streams == {"primary", "freespace"}
MeshContexts == {"timer", "service"}
Contexts == Streams \cup MeshContexts
BlockIndices == {"b1"}
Filenames == {"", "mesh.ply"}

(* --------------------------- point clouds ------------------------------ *)

NonFinite == {"nan", "inf", "-inf"}

RedSample == [x |-> "1.0", y |-> "1.0", z |-> "1.0", rgba |-> "red"]
BlueSample == [x |-> "2.0", y |-> "1.0", z |-> "1.0", rgba |-> "blue"]
NanSample == [RedSample EXCEPT !.y = "nan"]
InfSample == [BlueSample EXCEPT !.z = "-inf"]

\* pcl::PointXYZRGB samples: two finite ones, and every way of making one
\* coordinate of a sample non-finite
RawSamples ==
  {RedSample, BlueSample} \cup
  { [RedSample EXCEPT ![c] = v] : c \in {"x", "y", "z"}, v \in NonFinite }

\* std::isfinite
isfinite(c) == c \notin NonFinite

SkipsSampleIgnoringZ(p) == ~isfinite(p.x) \/ ~isfinite(p.y)
\* the test of the filtering loop: the sample is skipped
SkipsSample(p) == ~isfinite(p.x) \/ ~isfinite(p.y) \/ ~isfinite(p.z)

Point(p) == [x |-> p.x, y |-> p.y, z |-> p.z]
Color(p) == p.rgba

RECURSIVE SanitizeFrom(_, _, _, _)
\* the loop over pointcloud_pcl.points, from index i on
SanitizeFrom(pointcloud_pcl, i, points_C, colors) ==
  IF i > Len(pointcloud_pcl)
  THEN [points_C |-> points_C, colors |-> colors]
  ELSE IF SkipsSample(pointcloud_pcl[i])
       THEN SanitizeFrom(pointcloud_pcl, i + 1, points_C, colors)
       ELSE SanitizeFrom(pointcloud_pcl, i + 1,
                         Append(points_C, Point(pointcloud_pcl[i])),
                         Append(colors, Color(pointcloud_pcl[i])))

Sanitize(pointcloud_pcl) == SanitizeFrom(pointcloud_pcl, 1, <<>>, <<>>)

\* the raw clouds the frames of the server runs carry
FrameClouds == { <<NanSample, RedSample>>, <<InfSample>> }

(* ------------------------------ state ---------------------------------- *)

VARIABLES
  spinner_threads,          \* delivery of the callbacks (see above)
  min_time_between_msgs_,   \* parameter min_time_between_msgs_sec
  publish_tsdf_info_,       \* parameter publish_tsdf_info
  publish_slices_,          \* parameter publish_slices
  mesh_filename_,           \* parameter mesh_filename
  last_msg_time,            \* the static last_msg_time of each callback
  pc,                       \* where each execution context is
  cur,                      \* per stream: the frame of the running callback
                            \* and what has been done for it so far
  n_frames,                 \* frames delivered so far
  tsdf_map_,                \* block index -> content version (0: not allocated)
  updated,                  \* blocks whose updated flag is set
  mesh_layer_,              \* block index -> version the mesh block was made from
  mesh_pub_,                \* the latched message on the mesh topic (<<>>: none)
  touched,                  \* blocks integration wrote since the last extraction
  cyc,                      \* per mesh context: the running cycle and what it
                            \* has done so far
  raced,                    \* per context: its call overlapped another on the map
  n_loads,                  \* loadMap requests so far
  pcl_in,                   \* input of the sanitizing loop run on its own
  pcl_out                   \* its output (<<>>: not run yet)

vars == << spinner_threads, min_time_between_msgs_, publish_tsdf_info_,
           publish_slices_, mesh_filename_, last_msg_time, pc, cur, n_frames,
           tsdf_map_, updated, mesh_layer_, mesh_pub_, touched, cyc, raced,
           n_loads, pcl_in, pcl_out >>

config_vars == << spinner_threads, min_time_between_msgs_, publish_tsdf_info_,
                  publish_slices_, mesh_filename_ >>
sensor_vars == << last_msg_time, cur, n_frames >>
map_vars == << tsdf_map_, updated, touched, n_loads >>
mesh_vars == << mesh_layer_, mesh_pub_, cyc >>
san_vars == << pcl_in, pcl_out >>

\* no callback of the stream is running
NoFrame ==
  [id |-> 0, stamp |-> 0, wm |-> 0, admitted |-> FALSE, cloud |-> <<>>,
   lookups |-> <<>>, calls |-> <<>>, returned |-> 0, notes |-> <<>>,
   diag |-> 0]

\* no cycle is running in the context
NoCycle ==
  [kind |-> "none", updated0 |-> {}, allocated0 |-> {}, touched0 |-> {},
   blocks |-> <<>>, published |-> 0, exports |-> <<>>, ret |-> <<>>]

Allocated == {b \in BlockIndices : tsdf_map_[b] > 0}

\* the members after the constructor
StartState ==
  /\ last_msg_time = [s \in Streams |-> 0]
  /\ pc = [c \in Contexts |-> "idle"]
  /\ cur = [s \in Streams |-> NoFrame]
  /\ n_frames = 0
  /\ tsdf_map_ = [b \in BlockIndices |-> 0]
  /\ updated = {}
  /\ mesh_layer_ = [b \in BlockIndices |-> 0]
  /\ mesh_pub_ = <<>>
  /\ touched = {}
  /\ cyc = [m \in MeshContexts |-> NoCycle]
  /\ raced = [c \in Contexts |-> FALSE]
  /\ n_loads = 0

\* the state after the constructor: the parameters as the launch file set them
Init ==
  /\ spinner_threads = 1
  /\ min_time_between_msgs_ \in MinTimes
  /\ publish_tsdf_info_ \in BOOLEAN
  /\ publish_slices_ \in BOOLEAN
  /\ mesh_filename_ \in Filenames
  /\ StartState
  /\ pcl_in = <<>>
  /\ pcl_out = <<>>

\* a callback of context c may start: its source has none running (a
\* subscription, timer or service runs one callback at a time) and a
\* spinner thread is free
CanStart(c) ==
  /\ pc[c] = "idle"
  /\ Cardinality({o \in Contexts : pc[o] # "idle"}) < spinner_threads

\* a call that reads or writes the map or the mesh is in progress in c
MapCallInProgress(c) ==
  \/ c \in Streams /\ pc[c] = "integrating"
  \/ c \in MeshContexts /\ pc[c] = "regenerating"

Overlapping(c) == {o \in Contexts \ {c} : MapCallInProgress(o)}

\* c starts such a call: every call in progress overlaps it
RacedAtStart(c) ==
  [o \in Contexts |->
     IF o = c THEN Overlapping(c) # {}
     ELSE raced[o] \/ o \in Overlapping(c)]

\* an operation done in one step by c overlaps every call in progress
RacedByStep(c) ==
  [o \in Contexts |-> raced[o] \/ o \in Overlapping(c)]

(* ------------------------- the sensor callbacks ------------------------ *)

\* a gate that would also drop a frame exactly one interval after the last
AdmitsStrictly(stamp, last) == stamp - last > min_time_between_msgs_
\* a gate that would only ask for a stamp after the last one
AdmitsOnlyNewer(stamp, last) == stamp > last
\* the gate: the callback goes on unless stamp - last_msg_time < min
Admits(stamp, last) == ~(stamp - last < min_time_between_msgs_)

\* last_msg_time = pointcloud_msg->header.stamp
WatermarkAfterAdmit(stamp, last) == stamp

\* a gate that would assign the watermark before testing
WatermarkSetBeforeTest(stamp, last) == stamp
\* the early return comes before the assignment
WatermarkAfterDrop(stamp, last) == last

\* both callbacks passing false
IsFreespaceNever(s) == FALSE
\* the constant is_freespace_pointcloud of each callback
IsFreespace(s) == s = "freespace"

\* one watermark for both callbacks
WatermarkShared(s) == "primary"
\* "static ros::Time last_msg_time" is local to each callback: the callback
\* of stream s reads and writes its own
WatermarkOf(s) == s

\* the first lines of insertPointcloud and insertFreespacePointcloud
Gate(s, stamp, cloud) ==
  /\ CanStart(s)
  /\ n_frames < MaxFrames
  /\ n_frames' = n_frames + 1
  /\ LET last == last_msg_time[WatermarkOf(s)]
         f == [NoFrame EXCEPT !.id = n_frames + 1, !.stamp = stamp,
                              !.wm = last, !.cloud = cloud]
     IN IF Admits(stamp, last)
        THEN /\ last_msg_time' =
                  [last_msg_time EXCEPT
                     ![WatermarkOf(s)] = WatermarkAfterAdmit(stamp, last)]
             /\ cur' = [cur EXCEPT ![s] = [f EXCEPT !.admitted = TRUE]]
             /\ pc' = [pc EXCEPT ![s] = "lookup"]
        ELSE /\ cur' = [cur EXCEPT ![s] = f]
             /\ pc' = [pc EXCEPT ![s] = "done"]
             /\ last_msg_time' =
                  [last_msg_time EXCEPT
                     ![WatermarkOf(s)] = WatermarkAfterDrop(stamp, last)]
  /\ UNCHANGED << config_vars, map_vars, mesh_vars, raced, san_vars >>

insertPointcloud ==
  \E stamp \in Times, cloud \in FrameClouds : Gate("primary", stamp, cloud)

insertFreespacePointcloud ==
  \E stamp \in Times, cloud \in FrameClouds : Gate("freespace", stamp, cloud)

Poses == {"T1"}

LookupIgnored(res) == TRUE
\* the return value of transformer_.lookupTransform guards the whole body
LookupSucceeded(res) == res # "fail"

\* processPointCloudMessageAndInsert up to the call of integratePointcloud
lookupTransform(s) ==
  /\ pc[s] = "lookup"
  /\ \E res \in Poses \cup {"fail"} :
       LET f == [cur[s] EXCEPT !.lookups = Append(@, res)]
           san == Sanitize(f.cloud)
           call == [frame |-> f.id, T_G_C |-> res,
                    points_C |-> san.points_C, colors |-> san.colors,
                    is_freespace_pointcloud |-> IsFreespace(s)]
       IN IF LookupSucceeded(res)
          THEN /\ cur' = [cur EXCEPT ![s] = [f EXCEPT !.calls = Append(@, call)]]
               /\ pc' = [pc EXCEPT ![s] = "integrating"]
               /\ raced' = RacedAtStart(s)
          ELSE /\ cur' = [cur EXCEPT ![s] = f]
               /\ pc' = [pc EXCEPT ![s] = "tail"]
               /\ UNCHANGED raced
  /\ UNCHANGED << config_vars, last_msg_time, n_frames, map_vars, mesh_vars,
                  san_vars >>

\* a call that would only queue the work and come back
integratePointcloudDeferred(s) ==
  /\ pc[s] = "integrating"
  /\ pc' = [pc EXCEPT ![s] = "notify"]
  /\ raced' = [raced EXCEPT ![s] = FALSE]
  /\ UNCHANGED << config_vars, sensor_vars, map_vars, mesh_vars, san_vars >>
\* tsdf_integrator_->integratePointCloud returns: the blocks in T were written
integratePointcloud(s) ==
  /\ pc[s] = "integrating"
  /\ \E T \in SUBSET BlockIndices :
       /\ Len(cur[s].calls[Len(cur[s].calls)].points_C) = 0 => T = {}
       /\ IF raced[s]
          THEN \* a data race on the layer: any of the writes may be lost
               \E W \in SUBSET T :
                 /\ tsdf_map_' = [b \in BlockIndices |->
                                    IF b \in W THEN tsdf_map_[b] + 1
                                    ELSE tsdf_map_[b]]
                 /\ \E U \in SUBSET T :
                      updated' = {b \in updated \cup U : tsdf_map_'[b] > 0}
          ELSE /\ tsdf_map_' = [b \in BlockIndices |->
                                  IF b \in T THEN tsdf_map_[b] + 1
                                  ELSE tsdf_map_[b]]
               /\ updated' = updated \cup T
       /\ touched' = touched \cup T
  /\ cur' = [cur EXCEPT ![s].returned = @ + 1]
  /\ pc' = [pc EXCEPT ![s] = "notify"]
  /\ raced' = [raced EXCEPT ![s] = FALSE]
  /\ UNCHANGED << config_vars, last_msg_time, n_frames, n_loads, mesh_vars,
                  san_vars >>

\* the hook for inheriting classes, called with T_G_C after the integration
newPoseCallback(s) ==
  /\ pc[s] = "notify"
  /\ cur' = [cur EXCEPT ![s].notes =
               Append(@, cur[s].calls[Len(cur[s].calls)].T_G_C)]
  /\ pc' = [pc EXCEPT ![s] = "tail"]
  /\ UNCHANGED << config_vars, last_msg_time, n_frames, map_vars, mesh_vars,
                  raced, san_vars >>

\* messages published by the rest of insertPointcloud
Diagnostics ==
  (IF publish_tsdf_info_ THEN 3 ELSE 0) + (IF publish_slices_ THEN 1 ELSE 0)

\* what follows processPointCloudMessageAndInsert in each callback
finishInsert(s) ==
  /\ pc[s] = "tail"
  /\ cur' = [cur EXCEPT ![s].diag =
               IF s = "primary" THEN @ + Diagnostics ELSE @]
  /\ pc' = [pc EXCEPT ![s] = "done"]
  /\ UNCHANGED << config_vars, last_msg_time, n_frames, map_vars, mesh_vars,
                  raced, san_vars >>

\* the callback returns: the message and the locals are gone
returnInsert(s) ==
  /\ pc[s] = "done"
  /\ cur' = [cur EXCEPT ![s] = NoFrame]
  /\ pc' = [pc EXCEPT ![s] = "idle"]
  /\ UNCHANGED << config_vars, last_msg_time, n_frames, map_vars, mesh_vars,
                  raced, san_vars >>

(* ---------------------------- the mesh cycles -------------------------- *)

\* updateMesh asking for every block
UpdateMeshAllBlocks == FALSE
\* updateMesh: constexpr bool only_mesh_updated_blocks = true
UpdateMeshOnlyUpdated == TRUE

\* updateMesh: constexpr bool clear_updated_flag = true
UpdateMeshClearFlag == TRUE

\* generateMesh with clear_mesh = true: only_mesh_updated_blocks = false
GenerateMeshOnlyUpdated == FALSE

\* generateMesh: constexpr bool clear_updated_flag = true
GenerateMeshClearFlag == TRUE

only_mesh_updated_blocks(m) ==
  IF m = "timer" THEN UpdateMeshOnlyUpdated ELSE GenerateMeshOnlyUpdated

clear_updated_flag(m) ==
  IF m = "timer" THEN UpdateMeshClearFlag ELSE GenerateMeshClearFlag

\* a mesh cycle starts in m: the call of mesh_integrator_->generateMesh begins
\* a cycle that would build and publish the message before extracting
StartCyclePublishingFirst(m, kind) ==
  /\ CanStart(m)
  /\ pc' = [pc EXCEPT ![m] = "publishing"]
  /\ cyc' = [cyc EXCEPT ![m] = [NoCycle EXCEPT !.kind = kind,
                                               !.updated0 = updated,
                                               !.allocated0 = Allocated,
                                               !.touched0 = touched]]
  /\ UNCHANGED << config_vars, sensor_vars, map_vars, mesh_layer_, mesh_pub_,
                  raced, san_vars >>

\* the first statements of updateMesh and generateMesh, up to the call of
\* the mesh integrator
StartCycle(m, kind) ==
  /\ CanStart(m)
  /\ pc' = [pc EXCEPT ![m] = "regenerating"]
  /\ cyc' = [cyc EXCEPT ![m] = [NoCycle EXCEPT !.kind = kind,
                                               !.updated0 = updated,
                                               !.allocated0 = Allocated,
                                               !.touched0 = touched]]
  /\ raced' = RacedAtStart(m)
  /\ UNCHANGED << config_vars, sensor_vars, map_vars, mesh_layer_, mesh_pub_,
                  san_vars >>

\* the timer callback: updateMesh()
updateMeshEvent == StartCycle("timer", "incremental")

\* the generate_mesh service: generateMesh()
generateMeshCallback == StartCycle("service", "full")

\* the blocks a pass of the mesh integrator works on
BlocksOfPass(only_updated) == IF only_updated THEN updated ELSE Allocated

\* an extractor that would add to the mesh of a block instead of rebuilding it
MeshIntegratorGenerateMeshAppending(m) ==
  /\ pc[m] = "regenerating"
  /\ LET blocks == BlocksOfPass(only_mesh_updated_blocks(m))
     IN /\ mesh_layer_' = [b \in BlockIndices |->
                             IF b \in blocks THEN mesh_layer_[b] + tsdf_map_[b]
                             ELSE mesh_layer_[b]]
        /\ updated' = updated \ blocks
        /\ cyc' = [cyc EXCEPT ![m].blocks = Append(@, blocks)]
  /\ touched' = {}
  /\ pc' = [pc EXCEPT ![m] = "publishing"]
  /\ raced' = [raced EXCEPT ![m] = FALSE]
  /\ UNCHANGED << config_vars, sensor_vars, tsdf_map_, n_loads, mesh_pub_,
                  san_vars >>

\* MeshIntegrator::generateMesh(only_mesh_updated_blocks, clear_updated_flag)
\* returns: every block of the pass has its mesh rebuilt from the layer
MeshIntegratorGenerateMesh(m) ==
  /\ pc[m] = "regenerating"
  /\ LET blocks == BlocksOfPass(only_mesh_updated_blocks(m))
     IN /\ IF raced[m]
           THEN \* a data race on the layers: the mesh of a block of the pass
                \* and its flag may come out either way
                /\ \E G \in SUBSET blocks :
                     mesh_layer_' = [b \in BlockIndices |->
                                       IF b \in G THEN tsdf_map_[b]
                                       ELSE mesh_layer_[b]]
                /\ \E K \in SUBSET blocks : updated' = updated \ K
           ELSE /\ mesh_layer_' = [b \in BlockIndices |->
                                     IF b \in blocks THEN tsdf_map_[b]
                                     ELSE mesh_layer_[b]]
                /\ updated' = IF clear_updated_flag(m) THEN updated \ blocks
                              ELSE updated
        /\ cyc' = [cyc EXCEPT ![m].blocks = Append(@, blocks)]
  /\ touched' = {}
  /\ pc' = [pc EXCEPT ![m] = "publishing"]
  /\ raced' = [raced EXCEPT ![m] = FALSE]
  /\ UNCHANGED << config_vars, sensor_vars, tsdf_map_, n_loads, mesh_pub_,
                  san_vars >>

\* an export whatever the file name
ExportsUnconditionally(m) == m = "service"
\* an export on the timer path as well
ExportsOnEveryPath(m) == mesh_filename_ # ""
\* only generateMesh has the export, under "if (!mesh_filename_.empty())"
ExportsToFile(m) == m = "service" /\ mesh_filename_ # ""

\* generateVoxbloxMeshMsg and mesh_pub_.publish; generateMesh goes on to
\* the export when it has a file name
publishMesh(m) ==
  /\ pc[m] = "publishing"
  /\ mesh_pub_' = << mesh_layer_ >>
  /\ cyc' = [cyc EXCEPT ![m].published = @ + 1]
  /\ pc' = [pc EXCEPT ![m] = IF ExportsToFile(m)
                             THEN "exporting" ELSE "returning"]
  /\ UNCHANGED << config_vars, sensor_vars, map_vars, mesh_layer_, raced,
                  san_vars >>

\* outputMeshLayerAsPly(mesh_filename_, *mesh_layer_): it may fail
outputMeshLayerAsPly ==
  /\ pc["service"] = "exporting"
  /\ \E success \in BOOLEAN :
       cyc' = [cyc EXCEPT !["service"].exports = Append(@, success)]
  /\ pc' = [pc EXCEPT !["service"] = "returning"]
  /\ UNCHANGED << config_vars, sensor_vars, map_vars, mesh_layer_, mesh_pub_,
                  raced, san_vars >>

\* generateMesh ends with "return true", whatever the export gave
GenerateMeshReturn(exports) == TRUE

\* the last statement of updateMesh and of generateMesh
returnMesh(m) ==
  /\ pc[m] = "returning"
  /\ cyc' = [cyc EXCEPT ![m].ret =
               IF m = "service" THEN Append(@, GenerateMeshReturn(cyc[m].exports))
               ELSE @]
  /\ pc' = [pc EXCEPT ![m] = "done"]
  /\ UNCHANGED << config_vars, sensor_vars, map_vars, mesh_layer_, mesh_pub_,
                  raced, san_vars >>

\* the callback has returned: its locals are gone
endCycle(m) ==
  /\ pc[m] = "done"
  /\ cyc' = [cyc EXCEPT ![m] = NoCycle]
  /\ pc' = [pc EXCEPT ![m] = "idle"]
  /\ UNCHANGED << config_vars, sensor_vars, map_vars, mesh_layer_, mesh_pub_,
                  raced, san_vars >>

(* ------------------------- load_map and clear -------------------------- *)

\* a load that would leave the flags of the loaded blocks alone
loadMapCallbackUnflagged ==
  /\ CanStart("service")
  /\ n_loads < MaxLoads
  /\ n_loads' = n_loads + 1
  /\ \E ok \in BOOLEAN, L \in SUBSET BlockIndices :
       /\ ok => L # {}
       /\ ~ok => L = {}
       /\ tsdf_map_' = [b \in BlockIndices |->
                          IF b \in L THEN tsdf_map_[b] + 1 ELSE tsdf_map_[b]]
  /\ raced' = RacedByStep("service")
  /\ UNCHANGED << config_vars, sensor_vars, updated, touched, mesh_vars, pc,
                  san_vars >>

\* io::LoadBlocksFromFile with kReplace: the blocks of the file replace the
\* blocks of the layer and are marked updated; a failed load changes nothing
loadMapCallback ==
  /\ CanStart("service")
  /\ n_loads < MaxLoads
  /\ n_loads' = n_loads + 1
  /\ \E ok \in BOOLEAN, L \in SUBSET BlockIndices :
       /\ ok => L # {}
       /\ ~ok => L = {}
       /\ tsdf_map_' = [b \in BlockIndices |->
                          IF b \in L THEN tsdf_map_[b] + 1 ELSE tsdf_map_[b]]
       /\ updated' = updated \cup L
  /\ raced' = RacedByStep("service")
  /\ UNCHANGED << config_vars, sensor_vars, touched, mesh_vars, pc, san_vars >>

\* a clear that would forget the mesh layer
clearMapOnly ==
  /\ CanStart("service")
  /\ tsdf_map_' = [b \in BlockIndices |-> 0]
  /\ updated' = {}
  /\ raced' = RacedByStep("service")
  /\ UNCHANGED << config_vars, sensor_vars, touched, n_loads, mesh_vars, pc,
                  san_vars >>

\* removeAllBlocks on the layer and clear on the mesh layer
clear ==
  /\ CanStart("service")
  /\ tsdf_map_' = [b \in BlockIndices |-> 0]
  /\ updated' = {}
  /\ mesh_layer_' = [b \in BlockIndices |-> 0]
  /\ raced' = RacedByStep("service")
  /\ UNCHANGED << config_vars, sensor_vars, touched, n_loads, mesh_pub_, cyc,
                  pc, san_vars >>

(* ----------------------- the sanitizing loop alone --------------------- *)

Clouds ==
  UNION { [1 .. n -> RawSamples] : n \in 0 .. MaxPoints }

\* the loop is run on any cloud of at most MaxPoints samples
InitSanitize ==
  /\ spinner_threads = 1
  /\ min_time_between_msgs_ = 0
  /\ publish_tsdf_info_ = FALSE
  /\ publish_slices_ = FALSE
  /\ mesh_filename_ = ""
  /\ StartState
  /\ pcl_in \in Clouds
  /\ pcl_out = <<>>

runSanitize ==
  /\ pcl_out = <<>>
  /\ pcl_out' = << Sanitize(pcl_in) >>
  /\ UNCHANGED << config_vars, sensor_vars, map_vars, mesh_vars, pc, raced,
                  pcl_in >>

(* --------------------------- specifications ---------------------------- *)

Next ==
  \/ insertPointcloud
  \/ insertFreespacePointcloud
  \/ \E s \in Streams : lookupTransform(s)
  \/ \E s \in Streams : integratePointcloud(s)
  \/ \E s \in Streams : newPoseCallback(s)
  \/ \E s \in Streams : finishInsert(s)
  \/ \E s \in Streams : returnInsert(s)
  \/ updateMeshEvent
  \/ generateMeshCallback
  \/ \E m \in MeshContexts : MeshIntegratorGenerateMesh(m)
  \/ \E m \in MeshContexts : publishMesh(m)
  \/ outputMeshLayerAsPly
  \/ \E m \in MeshContexts : returnMesh(m)
  \/ \E m \in MeshContexts : endCycle(m)
  \/ loadMapCallback
  \/ clear

\* the node as it runs: one spinner thread delivers every callback
Spec == Init /\ [][Next]_vars

\* the callbacks delivered on separate execution contexts
InitConcurrent ==
  /\ spinner_threads = 2
  /\ min_time_between_msgs_ = 0
  /\ publish_tsdf_info_ = FALSE
  /\ publish_slices_ = FALSE
  /\ mesh_filename_ = "mesh.ply"
  /\ StartState
  /\ pcl_in = <<>>
  /\ pcl_out = <<>>

SpecConcurrent == InitConcurrent /\ [][Next]_vars

\* the node with the default gate and no diagnostics, for the progress of
\* the mesh cycles
InitLive ==
  /\ Init
  /\ min_time_between_msgs_ = 0
  /\ ~publish_tsdf_info_
  /\ ~publish_slices_

\* a mesh callback that has started goes on executing: each of its calls
\* returns and its next statement is run
MeshProgress ==
  /\ \A m \in MeshContexts :
       /\ WF_vars(MeshIntegratorGenerateMesh(m))
       /\ WF_vars(publishMesh(m))
       /\ WF_vars(returnMesh(m))
       /\ WF_vars(endCycle(m))
  /\ WF_vars(outputMeshLayerAsPly)

SpecLive == InitLive /\ [][Next]_vars /\ MeshProgress

NextSanitize == runSanitize
SpecSanitize == InitSanitize /\ [][NextSanitize]_vars

(* ------------------------------- claims -------------------------------- *)

\* the frame of the callback running on stream s
InFlight(s) == cur[s].id # 0
HasFailed(f) == \E i \in 1 .. Len(f.lookups) : f.lookups[i] = "fail"
HasResolved(f) == \E i \in 1 .. Len(f.lookups) : f.lookups[i] # "fail"

\* C1: a frame is admitted if and only if its timestamp minus the watermark
\* its stream had on arrival is at least min_time_between_msgs_, and from
\* the admission on, through every later stage of its callback (a failed
\* pose lookup included), the stream's watermark is the frame's timestamp.
C1_AdmitIffIntervalElapsed ==
  \A s \in Streams :
    InFlight(s) =>
      /\ cur[s].admitted <=>
           (cur[s].stamp - cur[s].wm >= min_time_between_msgs_)
      /\ cur[s].admitted => last_msg_time[s] = cur[s].stamp

\* an admitted frame whose pose lookup failed, at the end of its callback
C1_Witness ==
  \E s \in Streams :
    /\ pc[s] = "done"
    /\ cur[s].admitted
    /\ HasFailed(cur[s])
    /\ cur[s].stamp > cur[s].wm
    /\ last_msg_time[s] = cur[s].stamp

\* C2: a frame whose timestamp minus the watermark is below
\* min_time_between_msgs_ is dropped without effect: the watermark keeps its
\* value, nothing is looked up, integrated, notified or published for it and
\* its callback is at its return; and every call of the integrator is for
\* the admitted frame of the callback that makes it, so that a dropped frame
\* is not integrated later either.
C2_DroppedFrameHasNoEffect ==
  \A s \in Streams :
    /\ InFlight(s) /\ cur[s].stamp - cur[s].wm < min_time_between_msgs_ =>
         /\ ~cur[s].admitted
         /\ pc[s] = "done"
         /\ last_msg_time[s] = cur[s].wm
         /\ cur[s].lookups = <<>>
         /\ cur[s].calls = <<>>
         /\ cur[s].returned = 0
         /\ cur[s].notes = <<>>
         /\ cur[s].diag = 0
    /\ \A i \in 1 .. Len(cur[s].calls) :
         cur[s].admitted /\ cur[s].calls[i].frame = cur[s].id

\* a frame dropped on a stream that had admitted a frame before (scenario A)
C2_Witness ==
  \E s \in Streams :
    /\ InFlight(s)
    /\ ~cur[s].admitted
    /\ cur[s].wm > 0
    /\ cur[s].stamp >= cur[s].wm
    /\ n_frames > 1

\* C3: an integration call and a mesh extraction call are never in progress
\* at the same time, however the callbacks are delivered.
C3_IntegrationExcludesExtraction ==
  \A s \in Streams, m \in MeshContexts :
    ~(pc[s] = "integrating" /\ pc[m] = "regenerating")

InCycle == {"regenerating", "publishing"}

\* C4: the timer's cycle and the service's cycle are never both in
\* Regenerating or Publishing.
C4_OneMeshCycleAtATime ==
  ~(pc["timer"] \in InCycle /\ pc["service"] \in InCycle)

\* a step of the callback of s whose pose lookup has failed
FailedFrameStep(s) ==
  /\ pc'[s] # pc[s]
  /\ HasFailed(cur[s]) \/ HasFailed(cur'[s])

\* C5: when the pose lookup of an admitted frame fails, the integrator is
\* not called and no pose is notified for it, no step of its callback
\* changes the map or the mesh, the watermark is the frame's timestamp, and
\* the callback goes on to its return, after which the stream takes frames
\* again.
C5_PoseFailureDiscardsFrame ==
  [][\A s \in Streams :
       /\ HasFailed(cur'[s]) =>
            /\ cur'[s].admitted
            /\ cur'[s].lookups = << "fail" >>
            /\ cur'[s].calls = <<>>
            /\ cur'[s].returned = 0
            /\ cur'[s].notes = <<>>
            /\ last_msg_time'[s] = cur'[s].stamp
            /\ pc'[s] \in {"tail", "done"}
       /\ FailedFrameStep(s) =>
            /\ UNCHANGED << tsdf_map_, updated, mesh_layer_, mesh_pub_ >>
            /\ HasFailed(cur[s]) /\ pc[s] = "done" => pc'[s] = "idle"
    ]_vars

\* the callback of a frame whose lookup failed is at its return, and the
\* frame had moved the watermark
C5_Witness ==
  \E s \in Streams :
    /\ pc[s] = "done"
    /\ HasFailed(cur[s])
    /\ cur[s].stamp # cur[s].wm
    /\ last_msg_time[s] = cur[s].stamp

\* the pass of the cycle running in m, once its extraction has returned
PassDone(m) == cyc[m].blocks # <<>>

FlagCleared(b) == b \in updated /\ b \notin updated'

\* this step is the return of an extraction whose pass included b
PassIncluded(b) ==
  \E m \in MeshContexts :
    /\ pc[m] = "regenerating"
    /\ pc'[m] = "publishing"
    /\ b \in cyc'[m].blocks[Len(cyc'[m].blocks)]

C7_ReturnReflectsExport ==
  \A i \in 1 .. Len(cyc["service"].ret) :
    cyc["service"].ret[i] =
      (\A j \in 1 .. Len(cyc["service"].exports) : cyc["service"].exports[j])

\* C8: for an admitted frame whose pose resolved, the integrator is called
\* exactly once, with the resolved pose, the sanitized points and colors of
\* the frame and is_freespace_pointcloud false on the primary stream, true
\* on the freespace stream; the pose is notified exactly once, with the
\* resolved pose, and not before the integrator call has returned.
C8_IntegratesOnceThenNotifies ==
  \A s \in Streams :
    /\ Len(cur[s].calls) <= 1
    /\ cur[s].returned <= Len(cur[s].calls)
    /\ Len(cur[s].notes) <= cur[s].returned
    /\ pc[s] = "integrating" => cur[s].returned = 0
    /\ HasResolved(cur[s]) =>
         /\ cur[s].admitted
         /\ Len(cur[s].lookups) = 1
         /\ Len(cur[s].calls) = 1
         /\ cur[s].calls[1] =
              [frame |-> cur[s].id,
               T_G_C |-> cur[s].lookups[1],
               points_C |-> Sanitize(cur[s].cloud).points_C,
               colors |-> Sanitize(cur[s].cloud).colors,
               is_freespace_pointcloud |-> (s = "freespace")]
         /\ pc[s] \in {"tail", "done"} =>
              /\ cur[s].returned = 1
              /\ cur[s].notes = << cur[s].lookups[1] >>

\* a freespace frame with one finite sample has been integrated and notified
C8_Witness ==
  /\ pc["freespace"] = "done"
  /\ Len(cur["freespace"].calls) = 1
  /\ Len(cur["freespace"].calls[1].points_C) = 1
  /\ cur["freespace"].calls[1].is_freespace_pointcloud
  /\ cur["freespace"].notes = << "T1" >>

\* the indices of the samples of a cloud with three finite coordinates
FiniteIndices(cloud) ==
  { i \in 1 .. Len(cloud) :
      /\ cloud[i].x \notin {"nan", "inf", "-inf"}
      /\ cloud[i].y \notin {"nan", "inf", "-inf"}
      /\ cloud[i].z \notin {"nan", "inf", "-inf"} }

\* the place of sample i among the samples kept
Rank(cloud, i) == Cardinality({j \in FiniteIndices(cloud) : j <= i})

\* C9: the points and colors the loop gives are the samples of the input
\* with three finite coordinates, in input order, each point with the color
\* of its own sample; both arrays have that many entries, at most the
\* length of the input.
C9_SanitizeKeepsFiniteSamples ==
  pcl_out # <<>> =>
    LET out == pcl_out[1]
        kept == FiniteIndices(pcl_in)
    IN /\ Len(out.points_C) = Cardinality(kept)
       /\ Len(out.colors) = Cardinality(kept)
       /\ Len(out.points_C) <= Len(pcl_in)
       /\ \A i \in kept :
            /\ out.points_C[Rank(pcl_in, i)] =
                 [x |-> pcl_in[i].x, y |-> pcl_in[i].y, z |-> pcl_in[i].z]
            /\ out.colors[Rank(pcl_in, i)] = pcl_in[i].rgba

\* a cloud of three samples whose middle one is not finite: the two others
\* are kept, in order, with their colors
C9_Witness ==
  /\ pcl_out # <<>>
  /\ Len(pcl_in) = 3
  /\ FiniteIndices(pcl_in) = {1, 3}
  /\ pcl_in[1] # pcl_in[3]
  /\ pcl_out[1].colors = << pcl_in[1].rgba, pcl_in[3].rgba >>

\* C10: the watermark of a stream never decreases.
C10_WatermarkNeverDecreases ==
  [][\A s \in Streams : last_msg_time'[s] >= last_msg_time[s]]_vars

\* stream s takes a new frame in this step
Arrives(s) == cur'[s].id # cur[s].id /\ cur'[s].id # 0

\* C11: the gates of the two streams are independent: a frame arriving on
\* one stream, admitted or dropped, leaves the watermark of the other
\* stream as it was; a watermark changes only when its own stream admits a
\* frame; and whether a frame is admitted is decided by its stamp and the
\* watermark of its own stream alone.
C11_GatesIndependent ==
  [][\A s \in Streams :
       /\ Arrives(s) =>
            /\ \A o \in Streams \ {s} : last_msg_time'[o] = last_msg_time[o]
            /\ cur'[s].admitted <=>
                 (cur'[s].stamp - last_msg_time[s] >= min_time_between_msgs_)
       /\ last_msg_time'[s] # last_msg_time[s] =>
            Arrives(s) /\ cur'[s].admitted
    ]_vars

\* the primary watermark is 2 and the interval 2; a freespace frame stamped
\* 2, too early by the primary watermark, was admitted against its own
C11_Witness ==
  /\ min_time_between_msgs_ = 2
  /\ last_msg_time["primary"] = 2
  /\ cur["freespace"].admitted
  /\ cur["freespace"].stamp = 2
  /\ cur["freespace"].wm = 0
  /\ cur["freespace"].stamp - last_msg_time["primary"] < min_time_between_msgs_

\* an integrator call starts on stream s in this step
CallStarts(s) == Len(cur'[s].calls) > Len(cur[s].calls)

\* the frame of stream s leaves in this step
Leaves(s) == cur'[s].id # cur[s].id /\ cur[s].id # 0

InFlightCalls == {s \in Streams : cur[s].returned < Len(cur[s].calls)}

\* C13: at most one integrator call is in flight at any time.
C13_OneIntegrationInFlight == Cardinality(InFlightCalls) <= 1

\* the full cycle attempts an export in this step
ExportAttempted ==
  Len(cyc'["service"].exports) > Len(cyc["service"].exports)

\* C14: in a full cycle the export is attempted exactly when mesh_filename_
\* is not empty, once, and only after the mesh has been published; the
\* export, failed or not, changes neither the map nor the mesh layer nor
\* the published mesh; after it the cycle does not extract or publish
\* again, and the next step of the callback after its return statement
\* leaves the service idle.
C14_ExportAfterPublish ==
  [][/\ ExportAttempted =>
          /\ mesh_filename_ # ""
          /\ cyc["service"].kind = "full"
          /\ Len(cyc["service"].blocks) = 1
          /\ cyc["service"].published = 1
          /\ mesh_pub_ = << mesh_layer_ >>
          /\ cyc["service"].exports = <<>>
          /\ UNCHANGED << tsdf_map_, updated, mesh_layer_, mesh_pub_ >>
          /\ pc'["service"] = "returning"
     /\ pc'["service"] \in {"returning", "done"} =>
          Len(cyc'["service"].exports) = (IF mesh_filename_ # "" THEN 1 ELSE 0)
     /\ pc'["service"] \in {"regenerating", "publishing", "exporting"} =>
          cyc'["service"].exports = <<>>
     /\ cyc["service"].exports # <<>> /\ pc'["service"] # pc["service"] =>
          \/ pc["service"] = "returning" /\ pc'["service"] = "done"
          \/ /\ pc["service"] = "done"
             /\ pc'["service"] = "idle"
             /\ cyc'["service"] = NoCycle
    ]_vars

\* a full cycle whose export failed has published its mesh and returned
C14_Witness ==
  /\ pc["service"] = "done"
  /\ cyc["service"].exports = << FALSE >>
  /\ cyc["service"].published = 1
  /\ mesh_pub_ = << mesh_layer_ >>
  /\ mesh_layer_["b1"] > 0

\* C15: an incremental cycle publishes the mesh layer once, also when no
\* block is flagged, in which case the extraction leaves the mesh layer as
\* it was; and it never exports, whatever mesh_filename_ is.
C15_IncrementalPublishesNeverExports ==
  [][/\ pc'["timer"] # "exporting"
     /\ cyc'["timer"].exports = <<>>
     /\ cyc'["timer"].kind \in {"none", "incremental"}
     /\ pc'["timer"] \in {"returning", "done"} =>
          cyc'["timer"].published = 1
     /\ pc["timer"] = "publishing" /\ pc'["timer"] # "publishing" =>
          /\ pc'["timer"] = "returning"
          /\ mesh_pub_' = << mesh_layer_ >>
     /\ pc["timer"] = "regenerating" /\ pc'["timer"] # "regenerating" =>
          /\ pc'["timer"] = "publishing"
          /\ cyc["timer"].updated0 = {} => mesh_layer_' = mesh_layer_
    ]_vars

\* a timer cycle with no flagged block has published, with a file name set
C15_Witness ==
  /\ pc["timer"] = "done"
  /\ cyc["timer"].updated0 = {}
  /\ cyc["timer"].allocated0 # {}
  /\ cyc["timer"].published = 1
  /\ mesh_filename_ # ""
  /\ mesh_pub_ = << mesh_layer_ >>

\* a load_map request succeeds in this step
LoadSucceeds == n_loads' = n_loads + 1 /\ tsdf_map_' # tsdf_map_

\* the extraction of the cycle running in m returns in this step
PassReturns(m) == pc[m] = "regenerating" /\ pc'[m] = "publishing"

MeshOfAllocatedCurrent == \A b \in Allocated : mesh_layer_[b] = tsdf_map_[b]

\* C17: a full cycle is idempotent.  The pass of a full cycle leaves the
\* mesh of every allocated block made from its current content; a step
\* that does not change the map keeps it so and
\* leaves the mesh layer as it is, the pass of a second full cycle
\* included; and a full cycle publishes the mesh layer its pass left.  So
\* a second generateMesh with no map mutation in between yields the same
\* mesh layer and the same published mesh as the first.
C17_FullCycleIdempotent ==
  [][/\ PassReturns("service") =>
          /\ cyc'["service"].blocks = << Allocated >>
          /\ MeshOfAllocatedCurrent'
          /\ MeshOfAllocatedCurrent => mesh_layer_' = mesh_layer_
     /\ tsdf_map_' = tsdf_map_ /\ MeshOfAllocatedCurrent =>
          /\ MeshOfAllocatedCurrent'
          /\ mesh_layer_' = mesh_layer_
     /\ pc["service"] = "publishing" /\ pc'["service"] # "publishing" =>
          /\ mesh_pub_' = << mesh_layer_ >>
          /\ mesh_layer_' = mesh_layer_
    ]_vars

\* the pass of a full cycle has returned on a map that has not changed
\* since the mesh was last published: the mesh layer is the published one
C17_Witness ==
  /\ pc["service"] = "publishing"
  /\ cyc["service"].kind = "full"
  /\ cyc["service"].updated0 = {}
  /\ cyc["service"].blocks = << {"b1"} >>
  /\ mesh_pub_ = << mesh_layer_ >>
  /\ mesh_layer_["b1"] = tsdf_map_["b1"]

\* C18: a mesh cycle of either kind goes Idle -> Regenerating ->
\* Publishing -> (the end of the callback: export, return) -> Idle: it
\* extracts once, then publishes once what the extraction left, never
\* before the extraction has returned; and every cycle that has left Idle
\* gets back to Idle.
C18_CycleOrderAndCompletion ==
  /\ [][\A m \in MeshContexts :
          /\ pc'[m] # pc[m] =>
               \/ pc[m] = "idle" /\ pc'[m] = "regenerating"
               \/ pc[m] = "regenerating" /\ pc'[m] = "publishing"
               \/ pc[m] = "publishing" /\ pc'[m] \in {"exporting", "returning"}
               \/ pc[m] = "exporting" /\ pc'[m] = "returning"
               \/ pc[m] = "returning" /\ pc'[m] = "done"
               \/ pc[m] = "done" /\ pc'[m] = "idle"
          /\ cyc'[m].published # cyc[m].published /\ pc'[m] # "idle" =>
               /\ pc[m] = "publishing"
               /\ Len(cyc[m].blocks) = 1
               /\ cyc'[m].published = 1
               /\ mesh_pub_' = << mesh_layer_ >>
          /\ pc'[m] = "regenerating" =>
               cyc'[m].blocks = <<>> /\ cyc'[m].published = 0
          /\ pc'[m] \in {"exporting", "returning", "done"} =>
               Len(cyc'[m].blocks) = 1 /\ cyc'[m].published = 1
     ]_vars
  /\ \A m \in MeshContexts : (pc[m] # "idle") ~> (pc[m] = "idle")

\* a timer cycle has extracted, then published, and is about to be idle
C18_Witness ==
  /\ pc["timer"] = "done"
  /\ Len(cyc["timer"].blocks) = 1
  /\ cyc["timer"].published = 1
  /\ mesh_pub_ = << mesh_layer_ >>
  /\ mesh_layer_["b1"] > 0

\* the mesh layer a full pass would leave, run now on mesh
FullPassOn(mesh) ==
  [b \in BlockIndices |->
     IF b \in BlocksOfPass(GenerateMeshOnlyUpdated) THEN tsdf_map_[b]
     ELSE mesh[b]]

\* the pass of the timer cycle has returned and the callback is not over
AfterIncrementalPass == pc["timer"] \in {"publishing", "returning", "done"}

C20_FirstFrameAgainstZero ==
  [][\A s \in Streams :
       /\ n_frames = 0 => last_msg_time[s] = 0
       /\ last_msg_time'[s] # last_msg_time[s] =>
            Arrives(s) /\ cur'[s].admitted
       /\ Arrives(s) /\ last_msg_time[s] = 0 =>
            /\ cur'[s].wm = 0
            /\ cur'[s].admitted <=>
                 (cur'[s].stamp >= min_time_between_msgs_)
            /\ cur'[s].admitted => last_msg_time'[s] = cur'[s].stamp
            /\ ~cur'[s].admitted =>
                 last_msg_time'[s] = 0 /\ pc'[s] = "done"
            /\ min_time_between_msgs_ = 0 => cur'[s].admitted
    ]_vars

\* the first frame of all, stamped 1 with an interval of 2, was dropped
C20_Witness ==
  /\ n_frames = 1
  /\ cur["freespace"].id = 1
  /\ cur["freespace"].stamp = 1
  /\ min_time_between_msgs_ = 2
  /\ ~cur["freespace"].admitted
  /\ last_msg_time["freespace"] = 0

====
